---- MODULE Spec2Model ----
(***************************************************************************)
(* A model of the question-answering pipeline of                           *)
(* packages/googlecloud/functions/getanswer/inquirer.py and of the         *)
(* evaluation harness evaluate/test_evaluate_tsv.py.                       *)
(*                                                                         *)
(* Python values are tagged records [t, v]: a str is the sequence of its   *)
(* symbols, an int is held as its decimal digits, None has its own tag.    *)
(* A symbol is one                                                         *)
(* character, except that a literal the code only ever tests or stores as  *)
(* a whole ("timestamp not available", "Invalid date format", ...) is a    *)
(* single symbol.  A call either returns a value or raises:                *)
(* [ok |-> TRUE, val |-> v] or [ok |-> FALSE, exc |-> name].               *)
(***************************************************************************)
EXTENDS Integers, Sequences, FiniteSets

VARIABLES
    pc,             \* where the modelled execution stands
    caller,         \* who calls route_question
    query,          \* the query string of the call
    query_type,     \* the response mode of the call
    k,              \* the top-k the caller passes to route_question
    search,         \* per source: the state of its similarity search
    search_calls,   \* per source: the similarity searches issued so far
    llm_calls,      \* the language-model invocations so far (their prompts)
    responses_llm,  \* the model text handed to process_responses_llm
    docs,           \* the document list handed to process_responses_llm
    outcome,        \* what the call returned or raised
    rows,           \* evaluation harness: the data rows of the query file
    test_cases      \* evaluation harness: the outcome of loading the module

vars == <<pc, caller, query, query_type, k, search, search_calls, llm_calls,
          responses_llm, docs, outcome, rows, test_cases>>

----------------------------------------------------------------------------
(* Bounds of the model.                                                    *)

MaxDocs == 3
MaxTextLen == 5
MaxRows == 2
MaxRowLen == 3
MaxK == 2

----------------------------------------------------------------------------
(* Python values and call results.                                         *)

NoneV == [t |-> "none", v |-> <<>>]
Absent == [t |-> "absent", v |-> <<>>]
PyStr(s) == [t |-> "str", v |-> s]
IsStr(x) == x.t = "str"

Ok(x) == [ok |-> TRUE, val |-> x]
Raise(e) == [ok |-> FALSE, exc |-> e]

----------------------------------------------------------------------------
(* str operations.                                                         *)

\* s[i : i + len(sub)] == sub
MatchAt(s, sub, i) ==
    /\ i + Len(sub) - 1 <= Len(s)
    /\ \A j \in 1..Len(sub) : s[i + j - 1] = sub[j]

\* sub in s
Contains(s, sub) == \E i \in 1..(Len(s) + 1) : MatchAt(s, sub, i)

RECURSIVE SplitFrom(_, _, _, _)
SplitFrom(s, sep, i, cur) ==
    IF i > Len(s) THEN <<cur>>
    ELSE IF MatchAt(s, sep, i) THEN <<cur>> \o SplitFrom(s, sep, i + Len(sep), <<>>)
    ELSE SplitFrom(s, sep, i + 1, Append(cur, s[i]))

\* s.split(sep): the pieces between the non-overlapping occurrences of sep,
\* found left to right; never an empty list
Split(s, sep) == SplitFrom(s, sep, 1, <<>>)

DigitChars == <<"0", "1", "2", "3", "4", "5", "6", "7", "8", "9">>
IsDigit(c) == \E d \in 1..10 : DigitChars[d] = c
DigitVal(c) == (CHOOSE d \in 1..10 : DigitChars[d] = c) - 1
IsDigits(s) == Len(s) > 0 /\ \A j \in 1..Len(s) : IsDigit(s[j])

RECURSIVE DigitsVal(_)
DigitsVal(s) ==
    IF s = <<>> THEN 0
    ELSE 10 * DigitsVal(SubSeq(s, 1, Len(s) - 1)) + DigitVal(s[Len(s)])

\* int(s) for s over digits, letters and punctuation (no whitespace, sign or
\* underscore): the decimal value, ValueError unless s is one or more digits
IntParse(s) == IF IsDigits(s) THEN Ok(DigitsVal(s)) ELSE Raise("ValueError")

RECURSIVE IntToStr(_)
\* str(n) for n >= 0
IntToStr(n) ==
    IF n < 10 THEN <<DigitChars[n + 1]>>
    ELSE IntToStr(n \div 10) \o <<DigitChars[(n % 10) + 1]>>

\* an int n >= 0, and its value
PyInt(n) == [t |-> "int", v |-> IntToStr(n)]
IntOf(x) == DigitsVal(x.v)

\* bool(x) for the values the pipeline tests
Truthy(x) ==
    CASE x.t = "str" -> x.v # <<>>
      [] x.t = "int" -> IntOf(x) # 0
      [] OTHER -> FALSE

RECURSIVE ZeroPad(_, _)
ZeroPad(s, width) == IF Len(s) >= width THEN s ELSE ZeroPad(<<"0">> \o s, width)

RECURSIVE LastSlash(_, _)
LastSlash(s, i) == IF i = 0 \/ s[i] = "/" THEN i ELSE LastSlash(s, i - 1)

\* os.path.basename(p): what follows the last "/"
basename(p) == SubSeq(p, LastSlash(p, Len(p)) + 1, Len(p))

----------------------------------------------------------------------------
(* convert_date_format                                                     *)

IsLeap(y) == (y % 4 = 0 /\ y % 100 # 0) \/ y % 400 = 0
DaysInMonth(y, m) ==
    IF m = 2 THEN (IF IsLeap(y) THEN 29 ELSE 28)
    ELSE IF m \in {4, 6, 9, 11} THEN 30 ELSE 31

\* datetime.strptime(s, "%m-%d-%Y"): the month is 1[0-2]|0[1-9]|[1-9], the day
\* 3[01]|[12]\d|0[1-9]|[1-9], the year four digits, the whole string is
\* consumed and the date exists; ValueError otherwise
strptime_mdY(s) ==
    LET p == Split(s, <<"-">>) IN
    IF /\ Len(p) = 3
       /\ IsDigits(p[1]) /\ Len(p[1]) <= 2 /\ DigitsVal(p[1]) \in 1..12
       /\ IsDigits(p[2]) /\ Len(p[2]) <= 2 /\ DigitsVal(p[2]) \in 1..31
       /\ IsDigits(p[3]) /\ Len(p[3]) = 4 /\ DigitsVal(p[3]) >= 1
       /\ DigitsVal(p[2]) <= DaysInMonth(DigitsVal(p[3]), DigitsVal(p[1]))
    THEN Ok([m |-> DigitsVal(p[1]), d |-> DigitsVal(p[2]), Y |-> DigitsVal(p[3])])
    ELSE Raise("ValueError")

\* date_obj.strftime("%m/%d/%Y")
strftime_mdY(date) ==
    ZeroPad(IntToStr(date.m), 2) \o <<"/">> \o ZeroPad(IntToStr(date.d), 2)
        \o <<"/">> \o ZeroPad(IntToStr(date.Y), 4)

INVALID_NOT_STRING == <<"Invalid input: not a string">>
INVALID_DATE_FORMAT == <<"Invalid date format">>

\* The second attempt, strptime(date_str, "%-m-%-d-%Y"), raises ValueError
\* for every input ('-' is a bad directive in a strptime format), so a first
\* failure always ends in the marker.
convert_date_format(date_str) ==
    IF ~IsStr(date_str) THEN PyStr(INVALID_NOT_STRING)
    ELSE IF Contains(date_str.v, <<"/">>) THEN date_str
    ELSE LET date_obj == strptime_mdY(date_str.v) IN
         IF date_obj.ok THEN PyStr(strftime_mdY(date_obj.val))
         ELSE PyStr(INVALID_DATE_FORMAT)

----------------------------------------------------------------------------
(* timestamp_to_seconds                                                    *)

TIMESTAMP_NOT_AVAILABLE == <<"timestamp not available">>

\* a timestamp_to_seconds that gives None for whatever it cannot parse
timestamp_to_seconds_lenient(timestamp) ==
    LET parts == Split(Split(timestamp, <<"-">>)[1], <<":">>) IN
    IF Contains(timestamp, TIMESTAMP_NOT_AVAILABLE) THEN Ok(NoneV)
    ELSE IF (\E j \in 1..Len(parts) : ~IntParse(parts[j]).ok) \/ Len(parts) \notin {2, 3}
        THEN Ok(NoneV)
    ELSE Ok(PyInt(IntParse(parts[1]).val * 3600 + IntParse(parts[2]).val * 60
                  + (IF Len(parts) = 3 THEN IntParse(parts[3]).val ELSE 0)))

\* the result is Ok(NoneV), Ok(PyInt(seconds)) or Raise("ValueError")
timestamp_to_seconds(timestamp) ==
    IF Contains(timestamp, TIMESTAMP_NOT_AVAILABLE) THEN Ok(NoneV)
    ELSE LET start_time == Split(timestamp, <<"-">>)[1]
             parts == Split(start_time, <<":">>)
         IN  IF \E j \in 1..Len(parts) : ~IntParse(parts[j]).ok THEN Raise("ValueError")
             ELSE IF Len(parts) = 3 THEN
                 Ok(PyInt(IntParse(parts[1]).val * 3600 + IntParse(parts[2]).val * 60
                          + IntParse(parts[3]).val))
             ELSE IF Len(parts) = 2 THEN
                 Ok(PyInt(IntParse(parts[1]).val * 3600 + IntParse(parts[2]).val * 60 + 0))
             ELSE Raise("ValueError")

----------------------------------------------------------------------------
(* process_responses_llm                                                   *)

RESPONSE_TYPE_DEPTH == "in_depth"
RESPONSE_TYPE_GENERAL == "general"

\* doc.metadata.get(key, default); a metadata mapping is a record over the six
\* keys the assembler reads, whose missing keys hold Absent
metadata_get(metadata, key, default) ==
    IF metadata[key] = Absent THEN default ELSE metadata[key]

\* list[i], i counted from 0: IndexError when out of range
ListGet(list, i) == IF i >= 0 /\ i < Len(list) THEN Ok(list[i + 1]) ELSE Raise("IndexError")

\* list[i] if i < len(list) else None
GuardedGet(list, i) == IF i < Len(list) THEN ListGet(list, i) ELSE Ok(NoneV)

\* [f(doc) for doc in docs]
generated_titles(docs_list) ==
    [j \in 1..Len(docs_list) |->
        metadata_get(docs_list[j], "title", metadata_get(docs_list[j], "source", PyStr(<<>>)))]
page_numbers(docs_list) ==
    [j \in 1..Len(docs_list) |-> metadata_get(docs_list[j], "page_number", NoneV)]
generated_sources(docs_list) ==
    [j \in 1..Len(docs_list) |->
        metadata_get(docs_list[j], "source", PyStr(<<"source not available">>))]
publish_dates(docs_list) ==
    [j \in 1..Len(docs_list) |->
        convert_date_format(metadata_get(docs_list[j], "publish_date",
                                         PyStr(<<"date not available">>)))]
timestamps(docs_list) ==
    [j \in 1..Len(docs_list) |->
        metadata_get(docs_list[j], "timestamp", PyStr(TIMESTAMP_NOT_AVAILABLE))]
\* urls whose missing entries are None
urls_default_none(docs_list) ==
    [j \in 1..Len(docs_list) |-> metadata_get(docs_list[j], "url", NoneV)]

urls(docs_list) ==
    [j \in 1..Len(docs_list) |-> metadata_get(docs_list[j], "url", PyStr(<<"url not available">>))]

\* an offset that is always introduced by "?"
url_with_offset_question(url, seconds) ==
    url \o <<"?", "t", "=">> \o IntToStr(seconds) \o <<"s">>

\* section["source_url"] += f"&t={time_in_seconds}s" or f"?t={time_in_seconds}s"
url_with_offset(url, seconds) ==
    IF Contains(url, <<"?">>)
    THEN url \o <<"&", "t", "=">> \o IntToStr(seconds) \o <<"s">>
    ELSE url \o <<"?", "t", "=">> \o IntToStr(seconds) \o <<"s">>

\* lines 109-115: the section's URL after the offset step, or the exception
\* timestamp_to_seconds raised
source_url_step(url, timestamp) ==
    IF Truthy(url) /\ Truthy(timestamp) THEN
        LET time_in_seconds == timestamp_to_seconds(timestamp.v) IN
        IF ~time_in_seconds.ok THEN time_in_seconds
        ELSE IF time_in_seconds.val # NoneV
             THEN Ok(PyStr(url_with_offset(url.v, IntOf(time_in_seconds.val))))
             ELSE Ok(url)
    ELSE Ok(url)

\* one "if value is not None: citation[key] = value" step
citation_put(citation, key, value) ==
    IF value # NoneV THEN Append(citation, <<key, value>>) ELSE citation

\* lines 117-129: the citation dict, as its items in insertion order
build_citation(title, publish_date, url, timestamp, name, page_number) ==
    citation_put(citation_put(citation_put(citation_put(citation_put(citation_put(
        <<>>, "Title", title), "Published", publish_date), "URL", url),
        "Video timestamp", timestamp), "Name", name), "Page Number", page_number)

\* gen_responses(i): Ok([response, citation]) or the exception raised
gen_responses(i, generated_responses, docs_list) ==
    LET response == GuardedGet(generated_responses, i)
        title == GuardedGet(generated_titles(docs_list), i)
        source == GuardedGet(generated_sources(docs_list), i)
        page_number == GuardedGet(page_numbers(docs_list), i)
        publish_date == GuardedGet(publish_dates(docs_list), i)
        timestamp == GuardedGet(timestamps(docs_list), i)
        url == GuardedGet(urls(docs_list), i)
        lookups == <<response, title, source, page_number, publish_date, timestamp, url>>
    IN  IF \E j \in 1..Len(lookups) : ~lookups[j].ok THEN Raise("IndexError")
        ELSE
            LET name == IF source.val = NoneV THEN NoneV ELSE PyStr(basename(source.val.v))
                source_url == source_url_step(url.val, timestamp.val)
            IN  IF ~source_url.ok THEN source_url
                ELSE Ok([response |-> response.val,
                         citation |-> build_citation(title.val, publish_date.val,
                                          source_url.val, timestamp.val, name,
                                          page_number.val)])

\* a loop over the documents instead of the paragraphs
num_responses_docs(generated_responses, docs_list) == Len(docs_list)

\* num_responses = len(generated_responses): the loop runs over the paragraphs,
\* whatever the number of documents
num_responses(generated_responses, docs_list) == Len(generated_responses)

\* a test "response is not None" in place of the truth test
response_kept_not_none(response) == response # NoneV

\* `if response:` an empty paragraph gives no Section
response_kept(response) == Truthy(response)

RECURSIVE responses_loop(_, _, _, _, _)
\* for i in range(num_responses): ...
responses_loop(i, generated_responses, docs_list, responses, citations) ==
    IF i >= num_responses(generated_responses, docs_list)
    THEN Ok([responses |-> responses, citations |-> citations])
    ELSE LET r == gen_responses(i, generated_responses, docs_list) IN
         IF ~r.ok THEN r
         ELSE responses_loop(i + 1, generated_responses, docs_list,
                  IF response_kept(r.val.response)
                      THEN Append(responses, [response |-> r.val.response])
                      ELSE responses,
                  IF r.val.citation # <<>>
                      THEN Append(citations, r.val.citation)
                      ELSE citations)

\* the paragraphs of the model text
paragraphs(text) == [j \in 1..Len(Split(text, <<"\n", "\n">>)) |->
                        PyStr(Split(text, <<"\n", "\n">>)[j])]

\* json.dumps(card): a str that holds the card's JSON text
json_dumps(card) == [t |-> "json_str", json |-> card]
json_loads(s) == s.json

\* a test "docs is not None" in place of the truth test
docs_truthy_not_none(d) == d.t = "list"

\* `if docs:` is false for None and for the empty list
docs_truthy(d) == d.t = "list" /\ d.v # <<>>

process_responses_llm(text, d) ==
    LET generated_responses == paragraphs(text)
        lists ==
            IF docs_truthy(d)
            THEN responses_loop(0, generated_responses, d.v, <<>>, <<>>)
            ELSE Ok([responses |->
                        IF generated_responses # <<>>
                        THEN <<[response |-> generated_responses[1]]>>
                        ELSE <<>>,
                     citations |-> <<>>])
    IN  IF ~lists.ok THEN lists
        ELSE Ok(json_dumps([card_type |-> RESPONSE_TYPE_DEPTH,
                            responses |-> lists.val.responses,
                            citations |-> lists.val.citations]))

----------------------------------------------------------------------------
(* The inputs of process_responses_llm.                                    *)

Metadata(title, source, publish_date, timestamp, url, page_number) ==
    [title |-> title, source |-> source, publish_date |-> publish_date,
     timestamp |-> timestamp, url |-> url, page_number |-> page_number]

TITLE == PyStr(<<"T">>)
SOURCE_PATH == PyStr(<<"d", "/", "f">>)
PAGE == PyInt(7)
DATE_MDY == PyStr(<<"3", "-", "4", "-", "2", "0", "2", "4">>)
DATE_SLASHED == PyStr(<<"0", "3", "/", "0", "4", "/", "2", "0", "2", "4">>)
DATE_MALFORMED == PyStr(<<"n", "o", "t", "-", "a", "-", "d", "a", "t", "e">>)
DATE_NO_SUCH_DAY == PyStr(<<"2", "-", "3", "0", "-", "2", "0", "2", "4">>)
DATE_NOT_STR == PyInt(2024)
URL_PLAIN == PyStr(<<"u">>)
URL_QUERY == PyStr(<<"u", "?", "x", "=", "1">>)
URL_EMPTY == PyStr(<<>>)
TS_RANGE == PyStr(<<"1", ":", "0", "2", ":", "0", "3", "-", "1", ":", "0", "5", ":", "0", "0">>)
TS_HM == PyStr(<<"1", ":", "0", "2">>)
TS_SECONDS == PyStr(<<"0", ":", "0", "0", ":", "4", "2">>)
TS_SENTINEL == PyStr(TIMESTAMP_NOT_AVAILABLE)
TS_EMPTY == PyStr(<<>>)
TS_NOT_INT == PyStr(<<"x", ":", "1">>)
TS_ONE_PART == PyStr(<<"7">>)
TS_FOUR_PARTS == PyStr(<<"1", ":", "2", ":", "3", ":", "4">>)

Titles == {Absent, TITLE}
Dates == {Absent, DATE_MDY, DATE_SLASHED, DATE_MALFORMED, DATE_NO_SUCH_DAY, DATE_NOT_STR}
Urls == {Absent, URL_PLAIN, URL_QUERY, URL_EMPTY}
WellFormedTimestamps == {TS_RANGE, TS_HM, TS_SECONDS}
MalformedTimestamps == {TS_NOT_INT, TS_ONE_PART, TS_FOUR_PARTS}
Timestamps ==
    {Absent, TS_SENTINEL, TS_EMPTY} \cup WellFormedTimestamps \cup MalformedTimestamps

\* every combination of the sample field values (source and page number
\* present together or not at all)
AllDocs ==
    {Metadata(t, sp[1], d, ts, u, sp[2]) :
        t \in Titles, sp \in {<<Absent, Absent>>, <<SOURCE_PATH, PAGE>>},
        d \in Dates, ts \in Timestamps, u \in Urls}

DocTitleOnly == Metadata(TITLE, Absent, Absent, Absent, Absent, Absent)
DocVideo == Metadata(TITLE, SOURCE_PATH, DATE_MDY, TS_RANGE, URL_PLAIN, PAGE)
DocVideoQuery == Metadata(Absent, Absent, DATE_MALFORMED, TS_HM, URL_QUERY, Absent)
DocBadTimestamp == Metadata(TITLE, Absent, Absent, TS_NOT_INT, URL_PLAIN, Absent)

\* the documents that fill the longer lists
CoreDocs == {DocTitleOnly, DocVideo, DocVideoQuery, DocBadTimestamp}

SeqsUpTo(S, n) == UNION {[1..len -> S] : len \in 0..n}

\* docs: None, a list of one document of AllDocs, or a list of up to MaxDocs
\* documents of CoreDocs
DocInputs ==
    {NoneV} \cup {[t |-> "list", v |-> l] : l \in SeqsUpTo(CoreDocs, MaxDocs)}
            \cup {[t |-> "list", v |-> <<d>>] : d \in AllDocs}

TextAlphabet == {"a", "\n"}
Texts == SeqsUpTo(TextAlphabet, MaxTextLen)

----------------------------------------------------------------------------
(* The assembler on its own: process_responses_llm applied to every input.  *)

Pending == [ok |-> FALSE, exc |-> "pending"]
Sources == <<"fc", "cj", "pdf", "pc", "news">>
SourceNames == {Sources[j] : j \in 1..Len(Sources)}

InitAssemble ==
    /\ pc = "process_responses_llm"
    /\ caller = "none"
    /\ query = "none"
    /\ query_type = "none"
    /\ k = 0
    /\ search = [s \in SourceNames |-> [st |-> "idle"]]
    /\ search_calls = [s \in SourceNames |-> <<>>]
    /\ llm_calls = <<>>
    /\ responses_llm \in Texts
    /\ docs \in DocInputs
    /\ outcome = Pending
    /\ rows = <<>>
    /\ test_cases = Pending

Assemble ==
    /\ pc = "process_responses_llm"
    /\ caller = "none"
    /\ outcome' = process_responses_llm(responses_llm, docs)
    /\ pc' = IF outcome'.ok THEN "returned" ELSE "raised"
    /\ UNCHANGED <<caller, query, query_type, k, search, search_calls, llm_calls,
                   responses_llm, docs, rows, test_cases>>

NextAssemble == Assemble

SpecAssemble == InitAssemble /\ [][NextAssemble]_vars

----------------------------------------------------------------------------
(* route_question and get_indepth_response_from_query.                     *)

DEFAULT_K == 20
SEARCH_K == 5

Queries == {<<"q", "1">>, <<"q", "2">>}
QueryTypes == {RESPONSE_TYPE_DEPTH, RESPONSE_TYPE_GENERAL, "other"}

\* a retrieved Document and its score
Scored(content, metadata, score) ==
    [doc |-> [page_content |-> content, metadata |-> metadata], score |-> score]

\* what one similarity search may return
SearchResults ==
    {<<>>,
     <<Scored(<<"x">>, DocTitleOnly, 1), Scored(<<"y">>, DocVideo, 2)>>}

\* what the language model may answer
LlmTexts == {<<>>, <<"a">>, <<"a", "\n", "\n", "b">>, <<"a", "\n", "\n", "b", "\n", "\n", "c">>}

RECURSIVE InsertByScore(_, _)
InsertByScore(x, sorted) ==
    IF sorted = <<>> THEN <<x>>
    ELSE IF x.score > Head(sorted).score THEN <<x>> \o sorted
    ELSE <<Head(sorted)>> \o InsertByScore(x, Tail(sorted))

RECURSIVE sort_retrieved_documents(_)
\* helper.sort_retrieved_documents: the entries reordered by their ranking key,
\* taken here to be the score, best first
sort_retrieved_documents(l) ==
    IF l = <<>> THEN <<>>
    ELSE InsertByScore(l[Len(l)], sort_retrieved_documents(SubSeq(l, 1, Len(l) - 1)))

RECURSIVE Join(_, _)
\* sep.join(parts)
Join(parts, sep) ==
    IF parts = <<>> THEN <<>>
    ELSE IF Len(parts) = 1 THEN parts[1]
    ELSE parts[1] \o sep \o Join(Tail(parts), sep)

RECURSIVE sorted_concat(_, _)
\* the sorted results of the sources, in the mapping's order
sorted_concat(retrieved_docs, j) ==
    IF j > Len(Sources) THEN <<>>
    ELSE sort_retrieved_documents(retrieved_docs[Sources[j]])
             \o sorted_concat(retrieved_docs, j + 1)

process_and_concat_documents(retrieved_docs) ==
    LET all == sorted_concat(retrieved_docs, 1) IN
    [combined_content |-> Join([j \in 1..Len(all) |-> all[j].doc.page_content],
                               <<"\n", "\n">>),
     original_documents |-> [j \in 1..Len(all) |-> all[j].doc]]

\* the k of db.similarity_search_with_score(q, k=5): the literal of the lambda,
\* whatever k the function was given
similarity_search_k(k_arg) == SEARCH_K

AllSearchesEnded == \A s \in SourceNames : search[s].st \in {"ok", "raised"}
FailedSources == {j \in 1..Len(Sources) : search[Sources[j]].st = "raised"}
FirstFailed == Sources[CHOOSE j \in FailedSources : \A j2 \in FailedSources : j <= j2]

\* a route_question without the test of query_type
route_question_any_type ==
    /\ pc = "call"
    /\ caller # "none"
    /\ pc' = "retrieving"
    /\ UNCHANGED <<caller, query, query_type, k, search, search_calls, llm_calls,
                   responses_llm, docs, outcome, rows, test_cases>>

\* route_question up to the start of the parallel retrieval, or its ValueError
route_question ==
    /\ pc = "call"
    /\ caller # "none"
    /\ IF query_type = RESPONSE_TYPE_DEPTH
       THEN /\ pc' = "retrieving"
            /\ UNCHANGED outcome
       ELSE /\ pc' = "raised"
            /\ outcome' = [ok |-> FALSE, exc |-> "ValueError",
                           msg |-> <<"Invalid query_type. Expected ", RESPONSE_TYPE_DEPTH,
                                     ", got: ", query_type>>]
    /\ UNCHANGED <<caller, query, query_type, k, search, search_calls, llm_calls,
                   responses_llm, docs, rows, test_cases>>

\* one retrieval chain of the RunnableParallel issues its search
search_start(s) ==
    /\ pc = "retrieving"
    /\ search[s].st = "idle"
    /\ search' = [search EXCEPT ![s] = [st |-> "running"]]
    /\ search_calls' = [search_calls EXCEPT
                           ![s] = Append(@, [q |-> query, k |-> similarity_search_k(k)])]
    /\ UNCHANGED <<pc, caller, query, query_type, k, llm_calls, responses_llm, docs,
                   outcome, rows, test_cases>>

\* the search returns its ranked (document, score) list
search_returns(s) ==
    /\ pc = "retrieving"
    /\ search[s].st = "running"
    /\ \E l \in SearchResults : search' = [search EXCEPT ![s] = [st |-> "ok", docs |-> l]]
    /\ UNCHANGED <<pc, caller, query, query_type, k, search_calls, llm_calls,
                   responses_llm, docs, outcome, rows, test_cases>>

\* the search raises
search_raises(s) ==
    /\ pc = "retrieving"
    /\ search[s].st = "running"
    /\ search' = [search EXCEPT ![s] = [st |-> "raised"]]
    /\ UNCHANGED <<pc, caller, query, query_type, k, search_calls, llm_calls,
                   responses_llm, docs, outcome, rows, test_cases>>

\* the prompt is built from the combined documents and the model is invoked
invoke_llm(retrieved_docs) ==
    LET combined == process_and_concat_documents(retrieved_docs) IN
    /\ pc' = "llm"
    /\ docs' = [t |-> "list",
                v |-> [j \in 1..Len(combined.original_documents) |->
                          combined.original_documents[j].metadata]]
    /\ llm_calls' = Append(llm_calls, [question |-> query,
                                       docs |-> combined.combined_content])
    /\ UNCHANGED outcome

\* a retrievals.invoke that takes a failed search for an empty result
retrievals_invoke_partial ==
    /\ pc = "retrieving"
    /\ AllSearchesEnded
    /\ invoke_llm([s \in SourceNames |->
                      IF search[s].st = "ok" THEN search[s].docs ELSE <<>>])
    /\ UNCHANGED <<caller, query, query_type, k, search, search_calls, responses_llm,
                   rows, test_cases>>

\* retrievals.invoke(query) ends once every search has ended: with the
\* exception of a failed search, which nothing catches, or with the mapping,
\* which goes on to the language model
retrievals_invoke ==
    /\ pc = "retrieving"
    /\ AllSearchesEnded
    /\ IF FailedSources # {}
       THEN /\ pc' = "raised"
            /\ outcome' = [ok |-> FALSE, exc |-> "SearchError", source |-> FirstFailed]
            /\ UNCHANGED <<docs, llm_calls>>
       ELSE invoke_llm([s \in SourceNames |-> search[s].docs])
    /\ UNCHANGED <<caller, query, query_type, k, search, search_calls, responses_llm,
                   rows, test_cases>>

\* the model answers and the answer is assembled into the card
llm_returns ==
    /\ pc = "llm"
    /\ \E text \in LlmTexts :
          /\ responses_llm' = text
          /\ outcome' = process_responses_llm(text, docs)
    /\ pc' = IF outcome'.ok THEN "returned" ELSE "raised"
    /\ UNCHANGED <<caller, query, query_type, k, search, search_calls, llm_calls,
                   docs, rows, test_cases>>

\* the model call raises
llm_raises ==
    /\ pc = "llm"
    /\ pc' = "raised"
    /\ outcome' = [ok |-> FALSE, exc |-> "LlmError"]
    /\ UNCHANGED <<caller, query, query_type, k, search, search_calls, llm_calls,
                   responses_llm, docs, rows, test_cases>>

\* answer_query passes no k (route_question's default applies); a direct
\* caller passes its own
Init ==
    /\ pc = "call"
    /\ caller \in {"answer_query", "route_question"}
    /\ query \in Queries
    /\ query_type \in QueryTypes
    /\ k \in IF caller = "answer_query" THEN {DEFAULT_K} ELSE (1..MaxK) \cup {SEARCH_K}
    /\ search = [s \in SourceNames |-> [st |-> "idle"]]
    /\ search_calls = [s \in SourceNames |-> <<>>]
    /\ llm_calls = <<>>
    /\ responses_llm = <<>>
    /\ docs = NoneV
    /\ outcome = Pending
    /\ rows = <<>>
    /\ test_cases = Pending

Next ==
    \/ route_question
    \/ \E s \in SourceNames : search_start(s)
    \/ \E s \in SourceNames : search_returns(s)
    \/ \E s \in SourceNames : search_raises(s)
    \/ retrievals_invoke
    \/ llm_returns
    \/ llm_raises

Spec == Init /\ [][Next]_vars

----------------------------------------------------------------------------
(* The evaluation harness, evaluate/test_evaluate_tsv.py.                  *)

HARNESS_K == 5

\* the names inquirer.py defines or imports at module level
InquirerNames ==
    {"json", "os", "logging", "PromptTemplate", "LLMChain", "ChatOpenAI", "datetime",
     "FAISS", "StrOutputParser", "ChatPromptTemplate", "RunnableLambda",
     "RunnableParallel", "sort_retrieved_documents", "RESPONSE_TYPE_DEPTH",
     "RESPONSE_TYPE_GENERAL", "logger", "convert_date_format", "timestamp_to_seconds",
     "process_responses_llm", "append_metadata_to_content", "transform_query_for_date",
     "process_and_concat_documents", "get_indepth_response_from_query",
     "get_general_summary_response_from_query", "route_question", "answer_query"}

\* the names the harness imports from inquirer
HarnessImports ==
    {"route_question", "INDEPTH_RESPONSE_LLM", "INDEPTH_RESPONSE_PROMPT_TEMPLATE",
     "INDEPTH_RESPONSE_K"}

\* the parameters of def route_question(df, db_fc, ..., query, query_type, k=20)
RouteQuestionParams ==
    {"df", "db_fc", "db_cj", "db_pdf", "db_pc", "db_news", "query", "query_type", "k"}

\* the keyword arguments of the harness's call
HarnessKeywords == {"k", "return_context"}

\* a call of route_question with these keyword arguments: TypeError for a
\* keyword the function does not have, else what the function does
call_route_question(keywords, result) ==
    IF keywords \subseteq RouteQuestionParams THEN result ELSE Raise("TypeError")

Whitespace == {" ", "\t", "\n"}

RECURSIVE LStrip(_)
LStrip(s) == IF s # <<>> /\ Head(s) \in Whitespace THEN LStrip(Tail(s)) ELSE s
RECURSIVE RStrip(_)
RStrip(s) ==
    IF s # <<>> /\ s[Len(s)] \in Whitespace THEN RStrip(SubSeq(s, 1, Len(s) - 1)) ELSE s
\* s.strip()
Strip(s) == RStrip(LStrip(s))

\* actual_output, retrieval_context = value
unpack_pair(value) == IF value.t = "pair" THEN Ok(value.items) ELSE Raise("ValueError")

\* one pass of the loop body for a row: the TestCase, or the exception
test_case_of(row, result) ==
    LET row_obj == Split(Strip(row), <<"\t">>) IN
    IF Len(row_obj) > 2 THEN Raise("ValueError")
    ELSE LET q == row_obj[1]
             expected_output == IF Len(row_obj) = 1 THEN <<>> ELSE row_obj[2]
             r == call_route_question(HarnessKeywords, result)
         IN  IF ~r.ok THEN Raise(r.exc)
             ELSE IF ~unpack_pair(r.val).ok THEN Raise("ValueError")
             ELSE IF unpack_pair(r.val).val[1].t # "dict" THEN Raise("TypeError")
             ELSE Ok([input |-> q,
                      actual_output |->
                          Join([j \in 1..Len(unpack_pair(r.val).val[1].dict.responses) |->
                                   unpack_pair(r.val).val[1].dict.responses[j].response.v],
                               <<" ">>),
                      expected_output |-> expected_output,
                      retrieval_context |-> <<unpack_pair(r.val).val[2]>>])

RECURSIVE get_test_cases(_, _, _)
\* the loop of get_test_cases over the data rows
get_test_cases(file_rows, result, cases) ==
    IF file_rows = <<>> THEN Ok(cases)
    ELSE LET c == test_case_of(Head(file_rows), result) IN
         IF ~c.ok THEN c
         ELSE get_test_cases(Tail(file_rows), result, Append(cases, c.val))

\* what a completed in-depth call hands back to the harness
RouteResults ==
    {process_responses_llm(text, [t |-> "list", v |-> <<DocVideo>>]) : text \in LlmTexts}
        \cup {[ok |-> FALSE, exc |-> "SearchError"], [ok |-> FALSE, exc |-> "LlmError"]}

RowAlphabet == {"q", "\t"}
Rows == SeqsUpTo(RowAlphabet, MaxRowLen) \ {<<>>}

InitHarness ==
    /\ pc = "import"
    /\ caller = "get_test_cases"
    /\ query = "none"
    /\ query_type = RESPONSE_TYPE_DEPTH
    /\ k = HARNESS_K
    /\ search = [s \in SourceNames |-> [st |-> "idle"]]
    /\ search_calls = [s \in SourceNames |-> <<>>]
    /\ llm_calls = <<>>
    /\ responses_llm = <<>>
    /\ docs = NoneV
    /\ outcome = Pending
    /\ rows \in SeqsUpTo(Rows, MaxRows)
    /\ test_cases = Pending

\* the test module is loaded: its imports, then dataset = get_test_cases()
load_test_module ==
    /\ pc = "import"
    /\ caller = "get_test_cases"
    /\ \E result \in RouteResults :
          test_cases' = IF HarnessImports \subseteq InquirerNames
                        THEN get_test_cases(rows, result, <<>>)
                        ELSE Raise("ImportError")
    /\ pc' = IF test_cases'.ok THEN "returned" ELSE "raised"
    /\ UNCHANGED <<caller, query, query_type, k, search, search_calls, llm_calls,
                   responses_llm, docs, outcome, rows>>

NextHarness == load_test_module

SpecHarness == InitHarness /\ [][NextHarness]_vars

----------------------------------------------------------------------------
(* What the claims about process_responses_llm speak of.                   *)

\* the call has ended, by a return or by an exception
Ended == pc \in {"returned", "raised"}
Card == json_loads(outcome.val)

\* n, the number of documents, and m, the number of paragraphs
NumDocs == IF docs.t = "list" THEN Len(docs.v) ELSE 0
Paragraphs == Split(responses_llm, <<"\n", "\n">>)
NumParagraphs == Len(Paragraphs)
Min(a, b) == IF a <= b THEN a ELSE b

\* the documents that are paired with a paragraph
Paired == 1..Min(NumDocs, NumParagraphs)

RECURSIVE SectionsOf(_)
\* one Section per non-empty paragraph, in order
SectionsOf(ps) ==
    IF ps = <<>> THEN <<>>
    ELSE (IF Head(ps) # <<>> THEN <<[response |-> PyStr(Head(ps))]>> ELSE <<>>)
             \o SectionsOf(Tail(ps))

\* the text before the first double line break (the whole text without one)
FirstParagraph ==
    LET breaks == {i \in 1..Len(responses_llm) : MatchAt(responses_llm, <<"\n", "\n">>, i)}
    IN  IF breaks = {} THEN responses_llm
        ELSE SubSeq(responses_llm, 1,
                    (CHOOSE i \in breaks : \A j \in breaks : i <= j) - 1)

\* a document whose timestamp makes the URL step raise: the URL that is looked
\* up is non-empty (a missing URL is looked up as "url not available") and the
\* timestamp is malformed
RaisingDoc(d) == d.url # URL_EMPTY /\ d.timestamp \in MalformedTimestamps
SomePairedDocRaises == \E i \in Paired : RaisingDoc(docs.v[i])

CitationKeys(c) == [j \in 1..Len(c) |-> c[j][1]]
CitationValue(c, key) == (CHOOSE j \in 1..Len(c) : c[j][1] = key)

----------------------------------------------------------------------------
(* C1 *)

\* C1 (as stated): with n >= 1 documents and m > n paragraphs, the paragraphs
\* of index n..m-1 are dropped: the Sections of the card are built from the
\* first n paragraphs only.
C1_ExcessParagraphsDropped ==
    (pc = "returned" /\ caller = "none" /\ NumDocs >= 1 /\ NumParagraphs > NumDocs)
        => Card.responses = SectionsOf(SubSeq(Paragraphs, 1, NumDocs))

\* C1 (amended): with n >= 1 documents and m > n paragraphs, every call that
\* meets no raising timestamp returns a card whose Sections are all the
\* non-empty paragraphs, those of index >= n included, in order; only the
\* Citations stop at the documents: there are exactly n.
C1_ExcessParagraphsKept ==
    (Ended /\ caller = "none" /\ NumDocs >= 1 /\ NumParagraphs > NumDocs
           /\ ~SomePairedDocRaises)
        => /\ pc = "returned"
           /\ Card.responses = SectionsOf(Paragraphs)
           /\ Len(Card.citations) = NumDocs

\* a card whose last Section comes from a paragraph beyond the documents
C1_Witness ==
    /\ pc = "returned" /\ caller = "none"
    /\ NumDocs >= 1 /\ NumParagraphs > NumDocs
    /\ Paragraphs[NumParagraphs] # <<>>
    /\ Card.responses[Len(Card.responses)] = [response |-> PyStr(Paragraphs[NumParagraphs])]

----------------------------------------------------------------------------
(* C2 *)

TitleOnlyPaired(i) == i \in Paired /\ docs.v[i] = DocTitleOnly

\* C2 (as stated): a document whose metadata holds only a title, paired with
\* a paragraph, gives a Citation with the single key Title.
C2_TitleOnlyCitationHasOneKey ==
    (pc = "returned" /\ caller = "none")
        => \A i \in 1..NumDocs :
              TitleOnlyPaired(i) => CitationKeys(Card.citations[i]) = <<"Title">>

\* C2 (amended): a document whose metadata holds only a title, paired with a
\* paragraph, gives a Citation with exactly five keys, in this order: Title
\* (the title), Published ("Invalid date format"), URL ("url not available"),
\* Video timestamp ("timestamp not available") and Name ("source not
\* available"); Page Number alone is left out.
C2_TitleOnlyCitationHasFiveKeys ==
    (pc = "returned" /\ caller = "none")
        => \A i \in 1..NumDocs :
              TitleOnlyPaired(i) =>
                  Card.citations[i] =
                      << <<"Title", TITLE>>,
                         <<"Published", PyStr(<<"Invalid date format">>)>>,
                         <<"URL", PyStr(<<"url not available">>)>>,
                         <<"Video timestamp", PyStr(<<"timestamp not available">>)>>,
                         <<"Name", PyStr(<<"source not available">>)>> >>

\* a card built from a title-only document that has its paragraph
C2_Witness ==
    /\ pc = "returned" /\ caller = "none"
    /\ \E i \in 1..NumDocs : TitleOnlyPaired(i) /\ Len(Card.citations) >= i

----------------------------------------------------------------------------
(* C3 *)

MalformedDates == {DATE_MALFORMED, DATE_NO_SUCH_DAY, DATE_NOT_STR}
DateMarker(d) ==
    IF d = DATE_NOT_STR THEN PyStr(<<"Invalid input: not a string">>)
    ELSE PyStr(<<"Invalid date format">>)

----------------------------------------------------------------------------
(* C6 *)

\* C6 (as stated): with n >= 1 documents and m <= n paragraphs, no list lookup
\* is out of range and a returned card has exactly m Sections and at most m
\* Citations.
C6_ExactlyMSections ==
    (Ended /\ caller = "none" /\ NumDocs >= 1 /\ NumParagraphs <= NumDocs)
        => /\ pc = "raised" => outcome.exc # "IndexError"
           /\ pc = "returned" =>
                 /\ Len(Card.responses) = NumParagraphs
                 /\ Len(Card.citations) <= NumParagraphs

\* C6 (amended): with n >= 1 documents and m <= n paragraphs, no list lookup
\* is out of range and a returned card has one Section per non-empty
\* paragraph (so at most m Sections, and exactly m when no paragraph is
\* empty) and at most m Citations.
C6_OneSectionPerNonEmptyParagraph ==
    (Ended /\ caller = "none" /\ NumDocs >= 1 /\ NumParagraphs <= NumDocs)
        => /\ pc = "raised" => outcome.exc # "IndexError"
           /\ pc = "returned" =>
                 /\ Card.responses = SectionsOf(Paragraphs)
                 /\ Len(Card.responses) <= NumParagraphs
                 /\ (\A j \in 1..NumParagraphs : Paragraphs[j] # <<>>)
                        => Len(Card.responses) = NumParagraphs
                 /\ Len(Card.citations) <= NumParagraphs

\* the stated case: three documents, two paragraphs, two Sections
C6_Witness ==
    /\ pc = "returned" /\ caller = "none"
    /\ NumDocs = 3 /\ NumParagraphs = 2
    /\ Len(Card.responses) = 2
    /\ Len(Card.citations) = 2

----------------------------------------------------------------------------
(* C7 *)

\* C7: without documents (None or the empty list) the card has exactly one
\* Section, the first paragraph of the model text, and no Citation.
C7_NoDocsOneSection ==
    (Ended /\ caller = "none" /\ (docs = NoneV \/ docs = [t |-> "list", v |-> <<>>]))
        => /\ pc = "returned"
           /\ Card.responses = <<[response |-> PyStr(FirstParagraph)]>>
           /\ Card.citations = <<>>

\* a card for the empty document list and a text of several paragraphs
C7_Witness ==
    /\ pc = "returned" /\ caller = "none"
    /\ docs = [t |-> "list", v |-> <<>>]
    /\ NumParagraphs >= 2
    /\ Len(Card.responses) = 1

----------------------------------------------------------------------------
(* C8 *)

\* 3600*H + 60*M + S of the sample timestamps, in decimal
ExpectedOffset(ts) ==
    CASE ts = TS_RANGE -> <<"3", "7", "2", "3">>
      [] ts = TS_HM -> <<"3", "7", "2", "0">>
      [] ts = TS_SECONDS -> <<"4", "2">>

ExpectedUrl(d) ==
    IF d.timestamp \in WellFormedTimestamps THEN
        IF d.url = URL_QUERY
        THEN PyStr(d.url.v \o <<"&", "t", "=">> \o ExpectedOffset(d.timestamp) \o <<"s">>)
        ELSE PyStr(d.url.v \o <<"?", "t", "=">> \o ExpectedOffset(d.timestamp) \o <<"s">>)
    ELSE d.url

\* C8: for a document with a URL u and a timestamp that starts H:M:S or H:M,
\* the Citation's URL is u, then "?" (u without "?") or "&" (u with "?"), then
\* "t=<3600H+60M+S>s"; with the sentinel "timestamp not available" (also the
\* value of a missing timestamp) the Citation's URL is u.
C8_UrlCarriesOffset ==
    (pc = "returned" /\ caller = "none")
        => \A i \in Paired :
              LET d == docs.v[i] IN
              (d.url \in {URL_PLAIN, URL_QUERY}
                  /\ d.timestamp \in WellFormedTimestamps \cup {TS_SENTINEL, Absent})
                  => <<"URL", ExpectedUrl(d)>>
                        = Card.citations[i][CitationValue(Card.citations[i], "URL")]

\* a card whose Citation links into a URL that already had a query string
C8_Witness ==
    /\ pc = "returned" /\ caller = "none"
    /\ \E i \in Paired :
          /\ docs.v[i].url = URL_QUERY
          /\ docs.v[i].timestamp = TS_RANGE
          /\ <<"URL", PyStr(<<"u", "?", "x", "=", "1", "&", "t", "=", "3", "7", "2", "3", "s">>)>>
                = Card.citations[i][CitationValue(Card.citations[i], "URL")]

----------------------------------------------------------------------------
(* C4 *)

\* the query and expected output that row i of the file stands for
RowColumns(i) == Split(Strip(rows[i]), <<"\t">>)

\* C4: the harness's call of route_question succeeds for every record and
\* the harness builds exactly one TestCase per record, in file order, with
\* the record's query and, for a single-column record, expected_output ''.
C4_OneTestCasePerRecord ==
    (caller = "get_test_cases" /\ pc # "import")
        => /\ pc = "returned"
           /\ Len(test_cases.val) = Len(rows)
           /\ \A i \in 1..Len(rows) :
                 /\ test_cases.val[i].input = RowColumns(i)[1]
                 /\ Len(RowColumns(i)) = 1 => test_cases.val[i].expected_output = <<>>

----------------------------------------------------------------------------
(* C5 *)

NoSearchIssued == \A s \in SourceNames : search_calls[s] = <<>>

\* C5: for a query_type other than RESPONSE_TYPE_DEPTH route_question raises a
\* ValueError whose message names RESPONSE_TYPE_DEPTH and the received value,
\* with no similarity search and no model call issued and no card returned;
\* for RESPONSE_TYPE_DEPTH a completed call returns one card whose card_type
\* is RESPONSE_TYPE_DEPTH.
C5_OnlyDepthIsRouted ==
    (caller \in {"answer_query", "route_question"})
        => /\ (query_type # RESPONSE_TYPE_DEPTH /\ pc # "call")
                 => /\ pc = "raised"
                    /\ outcome = [ok |-> FALSE, exc |-> "ValueError",
                                  msg |-> <<"Invalid query_type. Expected ",
                                            RESPONSE_TYPE_DEPTH, ", got: ", query_type>>]
                    /\ NoSearchIssued
                    /\ llm_calls = <<>>
           /\ (query_type = RESPONSE_TYPE_DEPTH /\ pc = "returned")
                 => /\ outcome.ok
                    /\ Card.card_type = RESPONSE_TYPE_DEPTH

\* the call with the advertised second mode has raised
C5_Witness ==
    /\ caller = "answer_query"
    /\ query_type = RESPONSE_TYPE_GENERAL
    /\ pc = "raised"
    /\ outcome.exc = "ValueError"

----------------------------------------------------------------------------
(* C9 *)

\* C9: once the retrieval of a query has ended, exactly one similarity search
\* was issued against each of the five sources, each with the query string and
\* with the k the caller passed to route_question.
C9_SearchesUseCallersK ==
    (caller \in {"answer_query", "route_question"} /\ pc = "retrieving" /\ AllSearchesEnded)
        => /\ DOMAIN search = {"fc", "cj", "pdf", "pc", "news"}
           /\ \A s \in SourceNames :
                 /\ Len(search_calls[s]) = 1
                 /\ search_calls[s][1].q = query
                 /\ search_calls[s][1].k = k

----------------------------------------------------------------------------
(* C10 *)

SomeSearchRaised == \E s \in SourceNames : search[s].st = "raised"

\* C10: under every interleaving of the five searches: no search is issued
\* twice and the model is invoked at most once; after a failed search the
\* model is never invoked and no card is returned; a query that ends after a
\* failed search ends with that search's exception, and a failed model call
\* ends it with the model's exception; in both cases there is no card.
C10_FailureAbortsTheQuery ==
    (caller \in {"answer_query", "route_question"})
        => /\ \A s \in SourceNames : Len(search_calls[s]) <= 1
           /\ Len(llm_calls) <= 1
           /\ SomeSearchRaised =>
                 /\ llm_calls = <<>>
                 /\ pc \in {"retrieving", "raised"}
                 /\ pc = "raised" =>
                       /\ ~outcome.ok
                       /\ outcome.exc = "SearchError"
                       /\ search[outcome.source].st = "raised"
           /\ pc = "returned" =>
                 /\ outcome.ok
                 /\ \A s \in SourceNames : search[s].st = "ok"
           /\ (pc = "raised" /\ outcome.exc = "LlmError") => Len(llm_calls) = 1

\* a query that ended with the exception of one failed search while the other
\* four searches had succeeded
C10_Witness ==
    /\ caller = "answer_query"
    /\ pc = "raised"
    /\ outcome.exc = "SearchError"
    /\ Cardinality({s \in SourceNames : search[s].st = "ok"}) = 4

====
